---------------------------- MODULE Spec2Model ----------------------------
(***************************************************************************)
(* fsquad.c: a solution of the firing squad synchronization problem.       *)
(* The model follows main() and update_state() of src/fsquad.c: the two    *)
(* arrays machines / machines_old, the loop index j, the step counter t    *)
(* and the remaining step budget maxsteps.                                 *)
(***************************************************************************)
EXTENDS Integers, FiniteSets, Sequences, TLC

(* ------------------------------ bounds --------------------------------- *)
MaxN == 6
MaxCap == 4
MaxNegCap == 2
StepsPerN == 12

(* ------------------------ constants of fsquad.c ------------------------ *)
MAX_LENGTH == 1024
TRUE_ == 1
FALSE_ == 0
RED == 0
BLACK == 1
PASSIVE == 0
ACTIVE == 1
GENERAL == 0
SOLDIER == 1
NO_MSG == 0
TEST_MSG == 1
MID_TEST_MSG == 2
MID_ACK_MSG == 3
RESET_MSG == 4
PROMOTE_MSG == 5
LEFT == 0
RIGHT == 1
BROADCAST == 2

VARIABLES N, cap, maxsteps, machines, machines_old, j, t, pc, bang, lm, rm,
          printed

vars == <<N, cap, maxsteps, machines, machines_old, j, t, pc, bang, lm, rm,
          printed>>

(* The values the command line can give to -n and -t (atoi results).       *)
NValues == ((-1) .. MaxN) \cup {MAX_LENGTH + 1}
CapValues == (-MaxNegCap) .. MaxCap

(* The model stops a run that has not ended after MaxT steps; no run of    *)
(* the program with the lengths modelled reaches it (see                   *)
(* StepBoundNotReached).                                                   *)
MaxT == StepsPerN * N

(* An int that was never assigned: any of the three directions or some     *)
(* other value (-1 stands for every int outside 0..2).                     *)
UninitInt == {LEFT, RIGHT, BROADCAST, -1}

Messages == {NO_MSG, TEST_MSG, MID_TEST_MSG, MID_ACK_MSG, RESET_MSG, PROMOTE_MSG}

(* What a read through machines_old[i] can give when i is outside 0..N-1.  *)
StrayRecords == [message_direction : UninitInt, message : Messages]

(* C's logical negation.                                                   *)
Not(x) == IF x = 0 THEN 1 ELSE 0

(* ------------------- main(): initial states of machines ---------------- *)
LeftGeneral ==
    [type |-> GENERAL, activity |-> ACTIVE, color |-> RED,
     message_direction |-> RIGHT, timer |-> 0, message |-> NO_MSG,
     testing |-> TRUE_]

(* Variant: the interior machines start out Passive.                       *)
InitSoldier_passive ==
    [type |-> SOLDIER, activity |-> PASSIVE, color |-> BLACK,
     message_direction |-> BROADCAST, timer |-> 0, message |-> NO_MSG,
     testing |-> FALSE_]

InitSoldier ==
    [type |-> SOLDIER, activity |-> ACTIVE, color |-> BLACK,
     message_direction |-> BROADCAST, timer |-> 0, message |-> NO_MSG,
     testing |-> FALSE_]

(* Variant: the right end starts out Active and testing, as the left does. *)
RightGeneral_testing ==
    [type |-> GENERAL, activity |-> ACTIVE, color |-> RED,
     message_direction |-> LEFT, timer |-> 0, message |-> NO_MSG,
     testing |-> TRUE_]

RightGeneral ==
    [type |-> GENERAL, activity |-> PASSIVE, color |-> RED,
     message_direction |-> LEFT, timer |-> 0, message |-> NO_MSG,
     testing |-> FALSE_]

(* Variant: the right end is never set up as a General and stays one of    *)
(* the Soldiers of the loop over the interior.                             *)
InitialLine_noRightGeneral(n) ==
    [i \in 0 .. (n - 1) |-> IF i = 0 THEN LeftGeneral ELSE InitSoldier]

(* machines[0] is written first, machines[n-1] last: for n = 1 the single  *)
(* machine ends as the right (passive) general.                            *)
InitialLine(n) ==
    [i \in 0 .. (n - 1) |->
        IF i = n - 1 THEN RightGeneral
        ELSE IF i = 0 THEN LeftGeneral
        ELSE InitSoldier]

(* ------------------------- update_state(j) ----------------------------- *)
(* The message a machine takes from the record nb of its left neighbour.   *)
FromLeft(nb) ==
    IF nb.message_direction = RIGHT \/ nb.message_direction = BROADCAST
    THEN nb.message ELSE NO_MSG

(* The message a machine takes from the record nb of its right neighbour.  *)
FromRight(nb) ==
    IF nb.message_direction = LEFT \/ nb.message_direction = BROADCAST
    THEN nb.message ELSE NO_MSG

(* The records a read of src[i] can give.                                  *)
Neighbour(src, i) ==
    IF i \in DOMAIN src THEN {src[i]} ELSE StrayRecords

(* Variant: lm is read from the array being updated instead of the copy.  *)
LeftMessages_inPlace(p, cur, old) ==
    IF old[p].type = GENERAL
    THEN IF p # 0 THEN {FromLeft(cur[p - 1])} ELSE {NO_MSG}
    ELSE {FromLeft(nb) : nb \in Neighbour(cur, p - 1)}

(* The values lm can take in update_state(p): a General reads its left     *)
(* neighbour only when p # 0, a Soldier reads it unconditionally.          *)
LeftMessages(p, cur, old) ==
    IF old[p].type = GENERAL
    THEN IF p # 0 THEN {FromLeft(old[p - 1])} ELSE {NO_MSG}
    ELSE {FromLeft(nb) : nb \in Neighbour(old, p - 1)}

(* Variant: rm is taken whatever the neighbour's direction is.             *)
RightMessages_anyDirection(p, cur, old) ==
    IF old[p].type = GENERAL
    THEN IF p < N - 1 THEN {old[p + 1].message} ELSE {NO_MSG}
    ELSE {nb.message : nb \in Neighbour(old, p + 1)}

(* The values rm can take in update_state(p).                              *)
RightMessages(p, cur, old) ==
    IF old[p].type = GENERAL
    THEN IF p < N - 1 THEN {FromRight(old[p + 1])} ELSE {NO_MSG}
    ELSE {FromRight(nb) : nb \in Neighbour(old, p + 1)}


(* The three assignments that end update_state.                            *)
Commit(m, act, dir, msg) ==
    [m EXCEPT !.activity = act, !.message_direction = dir, !.message = msg]

(* if(machines_old[j]->timer) machines[j]->timer--;                        *)
TimerTick(m, oldm) ==
    IF oldm.timer # 0 THEN [m EXCEPT !.timer = m.timer - 1] ELSE m

(* Variant: RESET puts a General back into the Black state as well.        *)
GeneralReset_black(m) ==
    [m EXCEPT !.activity = PASSIVE, !.color = BLACK]

(* Variant: a General takes no notice of RESET.                            *)
GeneralReset_ignored(m) ==
    m

(* A General that receives RESET turns Passive and returns at once: no     *)
(* other field is written.                                                 *)
GeneralReset(m) ==
    [m EXCEPT !.activity = PASSIVE]

(* Variant: a General relays MID_TEST to the other side as a Soldier does. *)
MidAckReply_relay(m, act, l, r) ==
    IF l = MID_TEST_MSG
    THEN Commit(m, act, RIGHT, MID_TEST_MSG)
    ELSE Commit(m, act, LEFT, MID_TEST_MSG)

(* A General answers MID_TEST with MID_ACK towards the side(s) it came     *)
(* from.                                                                   *)
MidAckReply(m, act, l, r) ==
    IF r = MID_TEST_MSG /\ l = MID_TEST_MSG
    THEN Commit(m, act, BROADCAST, MID_ACK_MSG)
    ELSE IF r = MID_TEST_MSG
    THEN Commit(m, act, RIGHT, MID_ACK_MSG)
    ELSE Commit(m, act, LEFT, MID_ACK_MSG)

(* Variant: a TEST sets testing whatever the kind of the sender.           *)
TestFromSoldier_anyKind(p, cur, l, r) ==
    l = TEST_MSG \/ r = TEST_MSG

(* A TEST arrives from a neighbour that is a Soldier; the neighbour's kind *)
(* is read in machines, the array being updated.                           *)
TestFromSoldier(p, cur, l, r) ==
    \/ (l = TEST_MSG /\ cur[p - 1].type = SOLDIER)
    \/ (r = TEST_MSG /\ cur[p + 1].type = SOLDIER)

(* The General branch of update_state(p) with incoming messages l and r;   *)
(* d is the value the local dir holds when no branch assigns it.           *)
GeneralRule(p, cur, old, l, r, d) ==
    LET m == cur[p]
        act == IF old[p].activity = ACTIVE THEN ACTIVE ELSE PASSIVE
    IN  IF r = RESET_MSG \/ l = RESET_MSG
        THEN GeneralReset(m)
        ELSE IF r = MID_TEST_MSG \/ l = MID_TEST_MSG
        THEN MidAckReply(m, act, l, r)
        ELSE IF old[p].activity = ACTIVE
        THEN IF old[p].testing = TRUE_
             THEN Commit([m EXCEPT !.testing = FALSE_], ACTIVE, BROADCAST, TEST_MSG)
             ELSE IF TestFromSoldier(p, cur, l, r)
             THEN Commit([m EXCEPT !.testing = TRUE_], act, d, NO_MSG)
             ELSE Commit(m, act, d, NO_MSG)
        ELSE Commit(m, act, d, NO_MSG)

(* Variant: a Soldier made General by a PROMOTE keeps its color.           *)
Promoted_notRed(m, dir) ==
    [m EXCEPT !.type = GENERAL, !.activity = ACTIVE,
              !.testing = TRUE_, !.message = RESET_MSG,
              !.message_direction = dir]

(* A Soldier that received or sent PROMOTE becomes a Red Active General.   *)
Promoted(m, dir) ==
    [m EXCEPT !.type = GENERAL, !.color = RED, !.activity = ACTIVE,
              !.testing = TRUE_, !.message = RESET_MSG,
              !.message_direction = dir]

(* Variant: the Soldier that sent PROMOTE does not convert itself.         *)
SentPromote_forgotten(m, oldm) ==
    [m EXCEPT !.message = NO_MSG]

(* Variant: the promoting Soldier sends its RESET after its PROMOTE,       *)
(* towards the neighbour it promoted.                                      *)
SentPromote_sameSide(m, oldm) ==
    Promoted([m EXCEPT !.timer = 0], oldm.message_direction)

(* We promoted our neighbour last step, so we must also become a Red       *)
(* Active General, facing away from the neighbour.                         *)
SentPromote(m, oldm) ==
    Promoted([m EXCEPT !.timer = 0],
             IF oldm.message_direction = RIGHT THEN LEFT ELSE RIGHT)

(* Variant: the middle machine becomes a General but is not painted Red.   *)
Middle_notRed(m) ==
    Commit([m EXCEPT !.type = GENERAL, !.testing = TRUE_],
           ACTIVE, BROADCAST, RESET_MSG)

(* Middle of an odd array: both MID_ACKs in one step.                      *)
Middle(m) ==
    Commit([m EXCEPT !.type = GENERAL, !.color = RED, !.testing = TRUE_],
           ACTIVE, BROADCAST, RESET_MSG)

(* Variant: the acknowledgment window is nine steps instead of three.      *)
FirstAck_longWindow(m, d) ==
    Commit([m EXCEPT !.timer = 9], PASSIVE, d, NO_MSG)

(* Variant: the acknowledgment window is one step instead of three.        *)
FirstAck_shortWindow(m, d) ==
    Commit([m EXCEPT !.timer = 1], PASSIVE, d, NO_MSG)

(* Variant: a testing Soldier converts on its first MID_ACK.               *)
FirstAck_convert(m, d) ==
    Middle(m)

(* Variant: the first MID_ACK is passed on, in the unassigned direction.   *)
FirstAck_echo(m, d) ==
    Commit([m EXCEPT !.timer = 3], PASSIVE, d, MID_ACK_MSG)

(* First MID_ACK of a testing Active Soldier: dir is left unassigned.      *)
FirstAck(m, d) ==
    Commit([m EXCEPT !.timer = 3], PASSIVE, d, NO_MSG)

(* The Active Soldier branch (no PROMOTE, no RESET, some message).         *)
ActiveSoldier(m, oldm, l, r, d) ==
    IF r = TEST_MSG \/ l = TEST_MSG
    THEN Commit([m EXCEPT !.testing = TRUE_], ACTIVE, BROADCAST, MID_TEST_MSG)
    ELSE IF r = MID_ACK_MSG
    THEN IF l = MID_ACK_MSG THEN Middle(m)
         ELSE IF Not(oldm.testing) # 0
         THEN Commit(m, ACTIVE, LEFT, MID_ACK_MSG)
         ELSE FirstAck(m, d)
    ELSE IF l = MID_ACK_MSG
    THEN IF r = MID_ACK_MSG THEN Middle(m)
         ELSE IF Not(oldm.testing) # 0
         THEN Commit(m, ACTIVE, RIGHT, MID_ACK_MSG)
         ELSE FirstAck(m, d)
    ELSE IF l # NO_MSG
    THEN Commit(m, ACTIVE, RIGHT, l)
    ELSE Commit(m, ACTIVE, LEFT, r)

(* Variant: the second MID_ACK promotes whatever the timer says.           *)
SecondAck_alwaysPromote(m, oldm, from, other) ==
    TimerTick(Commit([m EXCEPT !.testing = FALSE_, !.timer = 0],
                     PASSIVE, from, PROMOTE_MSG), oldm)

(* Variant: the second MID_ACK promotes only while the timer still holds   *)
(* its starting value.                                                     *)
SecondAck_fullTimerOnly(m, oldm, from, other) ==
    IF oldm.timer >= 3
    THEN TimerTick(Commit([m EXCEPT !.testing = FALSE_, !.timer = 0],
                          PASSIVE, from, PROMOTE_MSG), oldm)
    ELSE TimerTick(Commit([m EXCEPT !.testing = FALSE_],
                          PASSIVE, other, TEST_MSG), oldm)

(* Variant: a Soldier that sends TEST back on a late second MID_ACK stays  *)
(* testing.                                                                *)
SecondAck_keepsTesting(m, oldm, from, other) ==
    IF oldm.timer >= 1
    THEN TimerTick(Commit([m EXCEPT !.testing = FALSE_, !.timer = 0],
                          PASSIVE, from, PROMOTE_MSG), oldm)
    ELSE TimerTick(Commit(m, PASSIVE, other, TEST_MSG), oldm)

(* Second MID_ACK of a Passive testing Soldier, arriving from the side     *)
(* `from`: PROMOTE towards that side while the timer runs, else TEST to    *)
(* the other side.  The timer tick of the Passive branch follows.          *)
SecondAck(m, oldm, from, other) ==
    IF oldm.timer >= 1
    THEN TimerTick(Commit([m EXCEPT !.testing = FALSE_, !.timer = 0],
                          PASSIVE, from, PROMOTE_MSG), oldm)
    ELSE TimerTick(Commit([m EXCEPT !.testing = FALSE_],
                          PASSIVE, other, TEST_MSG), oldm)

(* The Passive Soldier branch (no PROMOTE, no RESET, some message).        *)
PassiveSoldier(m, oldm, l, r) ==
    IF oldm.testing = TRUE_ /\ r = MID_ACK_MSG
    THEN SecondAck(m, oldm, RIGHT, LEFT)
    ELSE IF oldm.testing = TRUE_ /\ l = MID_ACK_MSG
    THEN SecondAck(m, oldm, LEFT, RIGHT)
    ELSE IF l # NO_MSG
    THEN TimerTick(Commit(m, PASSIVE, RIGHT, l), oldm)
    ELSE TimerTick(Commit(m, PASSIVE, LEFT, r), oldm)

(* Variant: a Soldier broadcasts the RESET it received.                    *)
ResetRelay_broadcast(m, l, r) ==
    Commit(m, ACTIVE, BROADCAST, RESET_MSG)

(* Active and Passive Soldiers handle RESET the same: turn Active and pass *)
(* it on, to the right if it came from the left, else to the left.         *)
ResetRelay(m, l, r) ==
    Commit(m, ACTIVE, IF l = RESET_MSG THEN RIGHT ELSE LEFT, RESET_MSG)

(* The Soldier branch of update_state(p).                                  *)
SoldierRule(p, cur, old, l, r, d) ==
    LET m == cur[p]
        oldm == old[p]
    IN  IF l = PROMOTE_MSG THEN Promoted(m, RIGHT)
        ELSE IF r = PROMOTE_MSG THEN Promoted(m, LEFT)
        ELSE IF oldm.message = PROMOTE_MSG
        THEN SentPromote(m, oldm)
        ELSE IF r = NO_MSG /\ l = NO_MSG
        THEN TimerTick([m EXCEPT !.message = NO_MSG], oldm)
        ELSE IF l = RESET_MSG \/ r = RESET_MSG
        THEN ResetRelay(m, l, r)
        ELSE IF oldm.activity = ACTIVE
        THEN ActiveSoldier(m, oldm, l, r, d)
        ELSE PassiveSoldier(m, oldm, l, r)

(* The record update_state(p) leaves in machines[p].                       *)
NewRecord(p, cur, old, l, r, d) ==
    IF old[p].type = GENERAL
    THEN GeneralRule(p, cur, old, l, r, d)
    ELSE SoldierRule(p, cur, old, l, r, d)

(* Every record update_state(p) can leave in machines[p].                  *)
Outcomes(p, cur, old) ==
    {NewRecord(p, cur, old, l, r, d) :
        l \in LeftMessages(p, cur, old),
        r \in RightMessages(p, cur, old),
        d \in UninitInt}

(* The firing test of main(): if(!machines[j]->color == RED) fire = FALSE  *)
FireTest(ms) ==
    \A i \in DOMAIN ms : ~(Not(ms[i].color) = RED)

(* ------------------------- main(): the driver -------------------------- *)
(* Variant: a length of zero passes the sanity check.                      *)
BadLength_zeroAllowed(n) ==
    n < 0 \/ n > MAX_LENGTH

(* if(N <= 0 || N > MAX_LENGTH): the requested length is not supported.    *)
BadLength(n) ==
    n <= 0 \/ n > MAX_LENGTH

(* Variant: any non-positive budget counts as used up.                     *)
BudgetExhausted_nonPositive(ms) ==
    ms <= 0

(* if(maxsteps == 0) break;                                                *)
BudgetExhausted(ms) ==
    ms = 0

(* Variant: the budget is never counted down.                              *)
Decrement_forgotten(ms) ==
    ms

(* if(maxsteps > 0) maxsteps--;                                            *)
Decrement(ms) ==
    IF ms > 0 THEN ms - 1 ELSE ms

(* ------------------------------ actions -------------------------------- *)
Init ==
    /\ N \in NValues
    /\ cap \in CapValues
    /\ maxsteps = cap
    /\ printed = 0
    /\ machines = << >>
    /\ machines_old = << >>
    /\ j = 1
    /\ t = 1
    /\ pc = "start"
    /\ bang = FALSE
    /\ lm = NO_MSG
    /\ rm = NO_MSG

(* Sanity check fails: the length is not in the supported range.           *)
RejectLength ==
    /\ pc = "start"
    /\ BadLength(N)
    /\ pc' = "error"
    /\ UNCHANGED <<N, cap, maxsteps, machines, machines_old, j, t, bang, lm, rm,
                   printed>>

(* Instantiate the machines, set up their initial states, print them.      *)
Seed ==
    /\ pc = "start"
    /\ ~BadLength(N)
    /\ machines' = InitialLine(N)
    /\ t' = 1
    /\ pc' = "loop"
    /\ printed' = printed + 1
    /\ UNCHANGED <<N, cap, maxsteps, machines_old, j, bang, lm, rm>>

(* Top of the main loop with the step budget used up.                      *)
Capped ==
    /\ pc = "loop"
    /\ BudgetExhausted(maxsteps)
    /\ pc' = "done"
    /\ UNCHANGED <<N, cap, maxsteps, machines, machines_old, j, t, bang, lm, rm,
                   printed>>

(* Top of the main loop: store the current state in machines_old.          *)
StoreOld ==
    /\ pc = "loop"
    /\ ~BudgetExhausted(maxsteps)
    /\ t <= MaxT
    /\ machines_old' = machines
    /\ j' = 0
    /\ pc' = "update"
    /\ UNCHANGED <<N, cap, maxsteps, machines, t, bang, lm, rm, printed>>

(* One call update_state(j) of the loop over the positions.                *)
UpdateState ==
    /\ pc = "update"
    /\ j < N
    /\ \E l \in LeftMessages(j, machines, machines_old),
          r \in RightMessages(j, machines, machines_old),
          d \in UninitInt :
            /\ machines' = [machines EXCEPT
                              ![j] = NewRecord(j, machines, machines_old, l, r, d)]
            /\ lm' = l
            /\ rm' = r
    /\ j' = j + 1
    /\ pc' = IF j + 1 < N THEN "update" ELSE "test"
    /\ UNCHANGED <<N, cap, maxsteps, machines_old, t, bang, printed>>

(* All machines updated: print the state and test the firing condition.    *)
Bang ==
    /\ pc = "test"
    /\ FireTest(machines)
    /\ bang' = TRUE
    /\ pc' = "done"
    /\ printed' = printed + 1
    /\ UNCHANGED <<N, cap, maxsteps, machines, machines_old, j, t, lm, rm>>

(* No fire: count the step and go round again.                             *)
NextStep ==
    /\ pc = "test"
    /\ ~FireTest(machines)
    /\ printed' = printed + 1
    /\ t' = t + 1
    /\ maxsteps' = Decrement(maxsteps)
    /\ pc' = "loop"
    /\ UNCHANGED <<N, cap, machines, machines_old, j, bang, lm, rm>>

Next ==
    \/ RejectLength
    \/ Seed
    \/ Capped
    \/ StoreOld
    \/ UpdateState
    \/ Bang
    \/ NextStep

Spec == Init /\ [][Next]_vars

(* main() is a sequential loop: whatever step is enabled is taken.         *)
FairSpec == Spec /\ WF_vars(Next)

(* The run of the default-sized demonstration of the header comment: a     *)
(* line of nine machines and no step cap.                                  *)
InitNine ==
    /\ N = 9
    /\ cap = -1
    /\ maxsteps = cap
    /\ printed = 0
    /\ machines = << >>
    /\ machines_old = << >>
    /\ j = 1
    /\ t = 1
    /\ pc = "start"
    /\ bang = FALSE
    /\ lm = NO_MSG
    /\ rm = NO_MSG

(* The steps such a run can take (the length is supported, the budget is   *)
(* never used up).                                                         *)
NextNine ==
    \/ Seed
    \/ StoreOld
    \/ UpdateState
    \/ Bang
    \/ NextStep

SpecNine == InitNine /\ [][NextNine]_vars

(* ------------------------- derived notions ----------------------------- *)
Positions == DOMAIN machines

Fired == pc = "done" /\ bang

AllRed(ms) == \A i \in DOMAIN ms : ms[i].color = RED

(* The run never comes near the model's step bound (MaxT only stops runs   *)
(* that a changed rule keeps from ending).                                 *)
StepBoundNotReached == pc \in {"loop", "update", "test", "done"} => t < MaxT

(* Position p fires locally in snapshot ms: it is Red and so is every      *)
(* neighbour it has.                                                       *)
LocalFire(ms, p) ==
    /\ ms[p].color = RED
    /\ (p - 1) \in DOMAIN ms => ms[p - 1].color = RED
    /\ (p + 1) \in DOMAIN ms => ms[p + 1].color = RED

(* The positions whose record in machines is already the one of the step   *)
(* that produced (or is producing) the current snapshot from machines_old. *)
Updated ==
    IF pc = "update" THEN {p \in Positions : p < j}
    ELSE IF pc \in {"test", "done", "loop"} THEN DOMAIN machines_old
    ELSE {}

(* The rule applied to position p using the previous snapshot only.        *)
FromSnapshot(p) == Outcomes(p, machines_old, machines_old)

(* Incoming messages of position p in the previous snapshot.               *)
IncomingLeft(p) ==
    IF p > 0 /\ machines_old[p - 1].message_direction \in {RIGHT, BROADCAST}
    THEN machines_old[p - 1].message ELSE NO_MSG

IncomingRight(p) ==
    IF p < N - 1 /\ machines_old[p + 1].message_direction \in {LEFT, BROADCAST}
    THEN machines_old[p + 1].message ELSE NO_MSG

(* ------------------------------- claims -------------------------------- *)

(* C1: for every line length N in 1..MaxN and no step cap (maxsteps = -1), *)
(* the run started from the seeded line eventually produces an all-Red     *)
(* snapshot and the driver stops with BANG.                                *)
C1_EventuallyFired ==
    (pc = "loop" /\ maxsteps = -1) ~> (Fired /\ AllRed(machines))

C1_Witness ==
    Fired /\ maxsteps = -1 /\ N >= 5 /\ AllRed(machines) /\ t > N

(* C2: at the step at which the driver declares Fired every machine is Red *)
(* and the immediately preceding snapshot (the initial one included) holds *)
(* at least one Black machine.                                             *)
C2_FiringStepIsFirstAllRed ==
    Fired => /\ AllRed(machines)
             /\ \E p \in DOMAIN machines_old : machines_old[p].color = BLACK

(* C3: for N >= 3 no machine fires locally (Red with all its neighbours    *)
(* Red) in a snapshot before the firing step, and in the firing snapshot   *)
(* every machine does.                                                     *)
C3_SimultaneousFire ==
    N >= 3 =>
        /\ pc = "loop" => \A p \in Positions : ~LocalFire(machines, p)
        /\ pc = "test" =>
              ((\E p \in Positions : LocalFire(machines, p))
                  => \A p \in Positions : LocalFire(machines, p))
        /\ Fired => \A p \in Positions : LocalFire(machines, p)

C3_Witness ==
    /\ Fired /\ N >= 4
    /\ \A p \in Positions : LocalFire(machines, p)
    /\ \E p \in Positions : machines_old[p].color = BLACK

(* C4: each step is globally synchronous: what update_state(j) computes in *)
(* place equals the rule applied to the previous snapshot alone, and every *)
(* record already written in this step is one the rule gives from the      *)
(* previous snapshot alone.                                                *)
C4_Synchronous ==
    /\ pc = "update" => Outcomes(j, machines, machines_old) = FromSnapshot(j)
    /\ \A p \in Updated : machines[p] \in FromSnapshot(p)

C4_Witness ==
    /\ pc = "update" /\ j > 0 /\ machines_old[j].type = GENERAL
    /\ machines_old[j].activity = ACTIVE /\ machines_old[j].testing = FALSE_
    /\ IncomingLeft(j) = TEST_MSG
    /\ machines[j - 1] # machines_old[j - 1]

(* C5: determinism: from every state in which a position is about to be    *)
(* updated, the update has exactly one possible result in every rendered   *)
(* field, the outgoing direction included.                                 *)
C5_Deterministic ==
    pc = "update" => Cardinality(Outcomes(j, machines, machines_old)) = 1

C7_RedStaysRed ==
    [][\A p \in Positions : machines[p].color = RED => machines'[p].color = RED]_vars

C7_Witness ==
    /\ pc = "test"
    /\ \E p \in Positions :
          /\ 0 < p /\ p < N - 1
          /\ machines_old[p].color = RED /\ machines[p].color = RED
          /\ IncomingLeft(p) # NO_MSG \/ IncomingRight(p) # NO_MSG

(* C8: kind is monotone: a General stays a General; positions 0 and N-1    *)
(* are Generals in every snapshot, so every Soldier is at a position in    *)
(* 1..N-2 and has both neighbours.                                         *)
C8_KindMonotone ==
    /\ [][\A p \in Positions :
             machines[p].type = GENERAL => machines'[p].type = GENERAL]_vars
    /\ [](\A p \in Positions :
             /\ (p = 0 \/ p = N - 1) => machines[p].type = GENERAL
             /\ machines[p].type = SOLDIER => (1 <= p /\ p <= N - 2))

C8_Witness ==
    /\ pc = "test"
    /\ \E p \in Positions :
          /\ 0 < p /\ p < N - 1
          /\ machines_old[p].type = GENERAL /\ machines[p].type = GENERAL
    /\ \E p \in Positions : machines_old[p].type = SOLDIER

(* C9: every machine's timer is an integer in 0..3 in every reachable      *)
(* snapshot, the step in which a Passive testing Soldier emits PROMOTE     *)
(* included.                                                               *)
C9_TimerRange ==
    \A p \in Positions : machines[p].timer \in 0 .. 3

(* C10: message visibility: the message position p takes from the left is  *)
(* the payload of p-1 in the previous snapshot if that neighbour exists    *)
(* and points Right or Broadcast, and NO_MSG otherwise; symmetrically from *)
(* the right with Left or Broadcast; the machine's own payload is never    *)
(* taken as incoming.                                                      *)
C10_Visibility ==
    (pc \in {"update", "test"} /\ j >= 1) =>
        LET p == j - 1 IN
        /\ lm = IF p = 0 THEN NO_MSG
                ELSE IF machines_old[p - 1].message_direction \in {RIGHT, BROADCAST}
                     THEN machines_old[p - 1].message ELSE NO_MSG
        /\ rm = IF p = N - 1 THEN NO_MSG
                ELSE IF machines_old[p + 1].message_direction \in {LEFT, BROADCAST}
                     THEN machines_old[p + 1].message ELSE NO_MSG

C10_Witness ==
    /\ pc = "update" /\ j >= 2 /\ j <= N - 1
    /\ machines_old[j - 1].message # NO_MSG
    /\ machines_old[j - 2].message # NO_MSG
    /\ machines_old[j - 2].message_direction = LEFT
    /\ machines_old[j].message # NO_MSG
    /\ machines_old[j].message_direction \in {LEFT, BROADCAST}
    /\ lm = NO_MSG /\ rm = machines_old[j].message

(* The number of synchronous steps completed: every completed step is      *)
(* followed by one print_state, and one print_state precedes the loop.     *)
StepsDone == printed - 1

(* The snapshot in machines is the seeded one (no step executed yet).      *)
InitialSnapshot == pc = "loop" /\ printed = 1

(* The positions that are Generals in snapshot ms.                         *)
Generals(ms) == {p \in DOMAIN ms : ms[p].type = GENERAL}

(* C11: the rule is total over the closed enumerations: every machine's    *)
(* kind, activity, color, direction and payload is one of the defined      *)
(* values in every reachable state; no update stores an unassigned value.  *)
C11_ClosedEnumerations ==
    \A p \in Positions :
        /\ machines[p].type \in {GENERAL, SOLDIER}
        /\ machines[p].activity \in {ACTIVE, PASSIVE}
        /\ machines[p].color \in {BLACK, RED}
        /\ machines[p].message_direction \in {LEFT, RIGHT, BROADCAST}
        /\ machines[p].message \in Messages

(* C12: for every supported N the initial snapshot has exactly two         *)
(* Generals, at 0 (Active, testing) and N-1 (Passive), both Red, and every *)
(* interior position is an Active Black Soldier, not testing, timer 0, no  *)
(* payload.                                                                *)
C12_InitialLine ==
    InitialSnapshot =>
        /\ Cardinality(Generals(machines)) = 2
        /\ Generals(machines) = {0, N - 1}
        /\ machines[0].activity = ACTIVE /\ machines[0].testing = TRUE_
        /\ machines[N - 1].activity = PASSIVE
        /\ machines[0].color = RED /\ machines[N - 1].color = RED
        /\ \A p \in Positions \ {0, N - 1} :
              /\ machines[p].type = SOLDIER /\ machines[p].activity = ACTIVE
              /\ machines[p].color = BLACK /\ machines[p].testing = FALSE_
              /\ machines[p].timer = 0 /\ machines[p].message = NO_MSG

(* C12 as amended: the above for every supported N >= 2; for N = 1 the     *)
(* single machine is a Passive Red General that is not testing.            *)
C12_InitialLineFromTwo ==
    InitialSnapshot =>
        /\ N >= 2 =>
              /\ Cardinality(Generals(machines)) = 2
              /\ Generals(machines) = {0, N - 1}
              /\ machines[0].activity = ACTIVE /\ machines[0].testing = TRUE_
              /\ machines[N - 1].activity = PASSIVE
              /\ machines[0].color = RED /\ machines[N - 1].color = RED
              /\ \A p \in Positions \ {0, N - 1} :
                    /\ machines[p].type = SOLDIER /\ machines[p].activity = ACTIVE
                    /\ machines[p].color = BLACK /\ machines[p].testing = FALSE_
                    /\ machines[p].timer = 0 /\ machines[p].message = NO_MSG
        /\ N = 1 =>
              /\ Generals(machines) = {0}
              /\ machines[0].activity = PASSIVE /\ machines[0].testing = FALSE_
              /\ machines[0].color = RED

C12_Witness ==
    InitialSnapshot /\ N >= 4 /\ Cardinality(Positions \ Generals(machines)) = N - 2

(* C13: if N <= 0 or N > MAX_LENGTH the driver reports a configuration     *)
(* error and the simulation does not start: no machine is created, no      *)
(* snapshot rendered, no step executed, neither Fired nor Capped reported. *)
C13_BadLengthRejected ==
    /\ [](N <= 0 \/ N > MAX_LENGTH =>
            /\ pc \in {"start", "error"}
            /\ machines = << >> /\ machines_old = << >>
            /\ printed = 0 /\ t = 1 /\ ~bang)
    /\ (pc = "start" /\ (N <= 0 \/ N > MAX_LENGTH)) ~> (pc = "error")

C13_Witness ==
    pc = "error" /\ N = MAX_LENGTH + 1 /\ machines = << >> /\ printed = 0

(* C14: a step cap that is absent, zero or negative means unlimited: a run *)
(* with a non-positive cap ends only by firing.                            *)
C14_NonPositiveUnlimited ==
    (pc = "done" /\ cap <= 0) => Fired

(* C14 as amended: an absent or negative cap means unlimited (the budget   *)
(* is never counted and the run goes on until Fired); a cap of zero        *)
(* executes no step: the run ends at once, not Fired.                      *)
C14_NegativeUnlimited ==
    /\ (pc = "loop" /\ cap < 0) ~> Fired
    /\ [](cap < 0 => maxsteps = cap /\ (pc = "done" => bang))
    /\ []((cap = 0 /\ pc = "done") => (~bang /\ StepsDone = 0))

C14_Witness ==
    Fired /\ cap = -2 /\ N >= 3 /\ maxsteps = -2 /\ StepsDone > N

(* C15: with a positive cap n the driver executes at most n steps; it ends *)
(* Fired if an all-Red snapshot is produced at a step k <= n (k = n        *)
(* included) and executes nothing after k; otherwise it ends Capped after  *)
(* exactly n steps; Fired and Capped are terminal.                         *)
C15_PositiveCap ==
    /\ [](cap > 0 =>
            /\ (IF pc \in {"update", "test"} THEN StepsDone + 1 ELSE StepsDone) <= cap
            /\ (pc = "done" /\ bang) => (AllRed(machines) /\ StepsDone <= cap)
            /\ (pc = "done" /\ ~bang) => (StepsDone = cap /\ ~AllRed(machines)))
    /\ [][(cap > 0 /\ pc = "test" /\ AllRed(machines)) => (pc' = "done" /\ bang')]_vars
    /\ [][pc # "done"]_vars

C15_Witness ==
    Fired /\ N = 3 /\ cap = 4 /\ StepsDone = cap

(* C16: the step count reported at the end equals the number of            *)
(* synchronous steps completed, for Fired and for Capped alike.            *)
C16_ReportedSteps ==
    pc = "done" => t = StepsDone

(* C17: for N = 1 (no cap) the run is Fired immediately, with step count   *)
(* 0 and without executing any synchronous step.                           *)
C17_SingleMachine ==
    (N = 1 /\ cap = -1) =>
        /\ pc \notin {"update", "test"}
        /\ pc = "done" => (bang /\ t = 0 /\ StepsDone = 0)

(* C18: for N = 3 position 0 emits TEST in the snapshot of step 1 and in   *)
(* no other, position 1 answers with a MID_TEST broadcast (step 2), both   *)
(* Generals answer MID_ACK (step 3), and position 1 becomes a Red General  *)
(* in the step it receives MID_ACK from both sides (step 4), which is the  *)
(* firing step.                                                            *)
C18_ThreeMachines ==
    (N = 3 /\ pc = "test") =>
        /\ t <= 4
        /\ machines[0].message = TEST_MSG <=> t = 1
        /\ t = 1 => machines[0].message_direction = BROADCAST
        /\ t = 2 => /\ machines[1].message = MID_TEST_MSG
                    /\ machines[1].message_direction = BROADCAST
                    /\ IncomingLeft(1) = TEST_MSG
        /\ t = 3 => /\ machines[0].message = MID_ACK_MSG
                    /\ machines[0].message_direction = RIGHT
                    /\ machines[2].message = MID_ACK_MSG
                    /\ machines[2].message_direction = LEFT
        /\ t < 4 => (machines[1].type = SOLDIER /\ ~FireTest(machines))
        /\ t = 4 => /\ IncomingLeft(1) = MID_ACK_MSG
                    /\ IncomingRight(1) = MID_ACK_MSG
                    /\ machines[1].type = GENERAL
                    /\ machines[1].color = RED
                    /\ FireTest(machines)

C18_Witness ==
    /\ N = 3 /\ Fired /\ t = 4
    /\ machines_old[1].type = SOLDIER /\ machines[1].type = GENERAL

(* C19: for N = 9 promotion is recursive by midpoint: the first Soldier    *)
(* converted is position 4, then positions 2 and 6 in one same step, then  *)
(* positions 1, 3, 5 and 7 in one same step, which is the firing step; no  *)
(* Soldier is converted in any other order or at any other step.           *)
C19_NineMachines ==
    (N = 9 /\ pc \in {"loop", "test", "done"}) =>
        /\ Generals(machines) \in
              {{0, 8}, {0, 4, 8}, {0, 2, 4, 6, 8}, 0 .. 8}
        /\ pc = "test" =>
              \/ Generals(machines) = Generals(machines_old)
              \/ Generals(machines) \ Generals(machines_old) = {4}
              \/ Generals(machines) \ Generals(machines_old) = {2, 6}
              \/ /\ Generals(machines) \ Generals(machines_old) = {1, 3, 5, 7}
                 /\ FireTest(machines)
        /\ FireTest(machines) <=> Generals(machines) = 0 .. 8

C19_Witness ==
    /\ N = 9 /\ pc = "test"
    /\ Generals(machines_old) = {0, 4, 8}
    /\ Generals(machines) = {0, 2, 4, 6, 8}

(* C20: the firing step is linear in N: for every supported N within the   *)
(* model bound the run reaches Fired at a step that is at most 3*N.        *)
C20_LinearFiringStep ==
    Fired => StepsDone <= 3 * N

(* C20 as amended: the firing step is at most 3*N only for N <= 4; for     *)
(* N >= 5 within the model bound it exceeds 3*N and is at most 2*N*N.      *)
C20_FiringStepBound ==
    Fired =>
        /\ N <= 4 => StepsDone <= 3 * N
        /\ N >= 5 => (3 * N < StepsDone /\ StepsDone <= 2 * N * N)

C20_Witness ==
    Fired /\ N = 5 /\ StepsDone = 20

(* The nearest General to the left / to the right of position p in         *)
(* snapshot ms (positions 0 and N-1 are Generals, so a Soldier has both).  *)
NearestLeft(ms, p) ==
    CHOOSE g \in Generals(ms) :
        g < p /\ \A h \in Generals(ms) : h < p => h <= g

NearestRight(ms, p) ==
    CHOOSE g \in Generals(ms) :
        g > p /\ \A h \in Generals(ms) : h > p => h >= g

(* The positions converted from Soldier to General by the step that        *)
(* produced (or is producing) the current snapshot.                        *)
Converted ==
    {p \in Updated : machines_old[p].type = SOLDIER /\ machines[p].type = GENERAL}

(* Position p took part in a PROMOTE in the previous snapshot: it received *)
(* one or had sent one.                                                    *)
ByPromote(p) ==
    \/ IncomingLeft(p) = PROMOTE_MSG
    \/ IncomingRight(p) = PROMOTE_MSG
    \/ machines_old[p].message = PROMOTE_MSG

(* Position p received MID_ACK from both sides in the previous snapshot.   *)
ByBothAcks(p) ==
    IncomingLeft(p) = MID_ACK_MSG /\ IncomingRight(p) = MID_ACK_MSG

(* C21: a Soldier is converted to a General only at the midpoint of its    *)
(* segment: with l and r the nearest Generals on its left and right in the *)
(* preceding snapshot, p-l = r-p when the conversion is caused by MID_ACK  *)
(* from both sides in one step, and the two distances differ by exactly 1  *)
(* when it is caused by a PROMOTE (sent or received); there is no other    *)
(* conversion.                                                             *)
C21_MidpointOnly ==
    \A p \in Converted :
        LET dl == p - NearestLeft(machines_old, p)
            dr == NearestRight(machines_old, p) - p
        IN  /\ ByBothAcks(p) \/ ByPromote(p)
            /\ ByBothAcks(p) => (~ByPromote(p) /\ dl = dr)
            /\ ByPromote(p) => (dl - dr = 1 \/ dr - dl = 1)

C21_Witness ==
    /\ pc = "test" /\ N = 6
    /\ Generals(machines_old) = {0, 2, 3, 5}
    /\ Converted = {1, 4}
    /\ \A p \in Converted : ByBothAcks(p)

(* The General at position p received RESET in the previous snapshot.      *)
GeneralGotReset(p) ==
    /\ machines_old[p].type = GENERAL
    /\ IncomingLeft(p) = RESET_MSG \/ IncomingRight(p) = RESET_MSG

(* C22: a General that receives RESET from either side is Passive after    *)
(* that step and has payload NO_MSG in the resulting snapshot, whatever    *)
(* else it received or was about to send (the payload it stored before is  *)
(* NO_MSG already, so none is left over).                                  *)
C22_ResetSilencesGeneral ==
    \A p \in Updated :
        GeneralGotReset(p) =>
            /\ machines[p].activity = PASSIVE
            /\ machines[p].message = NO_MSG
            /\ machines_old[p].message = NO_MSG

C22_Witness ==
    /\ pc = "test"
    /\ \E p \in Positions :
          /\ GeneralGotReset(p)
          /\ machines_old[p].activity = ACTIVE
          /\ machines[p].activity = PASSIVE

(* The General at position p received TEST in the previous snapshot from   *)
(* a neighbour of kind k, and neither RESET nor MID_TEST, and was not      *)
(* itself Active with testing set.                                         *)
GeneralGotTest(p, k) ==
    /\ machines_old[p].type = GENERAL
    /\ ~GeneralGotReset(p)
    /\ IncomingLeft(p) # MID_TEST_MSG /\ IncomingRight(p) # MID_TEST_MSG
    /\ ~(machines_old[p].activity = ACTIVE /\ machines_old[p].testing = TRUE_)
    /\ \/ IncomingLeft(p) = TEST_MSG /\ machines_old[p - 1].type = k
       \/ IncomingRight(p) = TEST_MSG /\ machines_old[p + 1].type = k

(* C23: any General, Active or Passive, that receives TEST from a          *)
(* neighbouring Soldier in a step in which it receives neither RESET nor   *)
(* MID_TEST and is not itself Active with testing set, has testing set     *)
(* after the step and emits no message in that step; a TEST coming from a  *)
(* neighbouring General does not set testing.  (The General such a TEST    *)
(* reaches is always the Active one of its segment.)                       *)
C23_TestSetsTesting ==
    \A p \in Updated :
        /\ GeneralGotTest(p, SOLDIER) =>
              /\ machines[p].testing = TRUE_
              /\ machines[p].message = NO_MSG
              /\ machines_old[p].activity = ACTIVE
        /\ (GeneralGotTest(p, GENERAL) /\ ~GeneralGotTest(p, SOLDIER)) =>
              machines[p].testing = FALSE_

C23_Witness ==
    /\ pc = "test"
    /\ \E p \in Positions :
          /\ GeneralGotTest(p, SOLDIER)
          /\ machines_old[p].testing = FALSE_
          /\ machines[p].testing = TRUE_
          /\ machines[p].message = NO_MSG

(* The Soldiers that carry PROMOTE in the previous snapshot.               *)
Promoters ==
    {p \in DOMAIN machines_old :
        machines_old[p].type = SOLDIER /\ machines_old[p].message = PROMOTE_MSG}

(* The neighbour the PROMOTE of promoter p is directed at.                 *)
Target(p) ==
    IF machines_old[p].message_direction = RIGHT THEN p + 1 ELSE p - 1

(* Record m is a Red Active General with testing set that carries RESET    *)
(* in direction dir.                                                       *)
NewGeneral(m, dir) ==
    /\ m.type = GENERAL /\ m.color = RED /\ m.activity = ACTIVE
    /\ m.testing = TRUE_
    /\ m.message = RESET_MSG /\ m.message_direction = dir

(* C24: even split is pairwise and simultaneous: whenever a Soldier emits  *)
(* PROMOTE toward a neighbour in the snapshot of step s, then in the       *)
(* snapshot of step s+1 both that Soldier and the targeted neighbour are   *)
(* Generals, Red, Active, with testing set, each carrying RESET directed   *)
(* away from the other, and the promoter's timer is 0; no machine other    *)
(* than these two is converted by that PROMOTE.                            *)
C24_PromotePair ==
    pc = "test" =>
        /\ \A p \in Promoters :
              LET q == Target(p)
                  away == IF q = p + 1 THEN LEFT ELSE RIGHT
                  on == IF q = p + 1 THEN RIGHT ELSE LEFT
              IN  /\ machines_old[p].message_direction \in {LEFT, RIGHT}
                  /\ q \in Positions /\ machines_old[q].type = SOLDIER
                  /\ NewGeneral(machines[p], away)
                  /\ NewGeneral(machines[q], on)
                  /\ machines[p].timer = 0
        /\ \A x \in Converted :
              ByPromote(x) => \E p \in Promoters : x = p \/ x = Target(p)

C24_Witness ==
    /\ pc = "test" /\ N = 6
    /\ Promoters # {}
    /\ \A p \in Promoters : Target(p) \in Converted /\ p \in Converted
    /\ Cardinality(Converted) = 2

(* The Soldier at position p is Passive with testing set in the previous   *)
(* snapshot: it waits for its second MID_ACK.                              *)
AwaitsSecondAck(p) ==
    /\ machines_old[p].type = SOLDIER
    /\ machines_old[p].activity = PASSIVE
    /\ machines_old[p].testing = TRUE_

(* C25: a Passive Soldier with testing set that receives MID_ACK from one  *)
(* side emits PROMOTE toward that side if and only if its timer in the     *)
(* previous snapshot is >= 1, and otherwise (timer = 0) emits TEST toward  *)
(* the opposite side; testing is cleared in both cases.  The timer is set  *)
(* to 3 at the first MID_ACK and goes down by one in every step after it   *)
(* until it is 0, so PROMOTE is emitted exactly when the second MID_ACK    *)
(* arrives at most 3 steps after the first.                                *)
C25_SecondAck ==
    \A p \in Updated :
        /\ (AwaitsSecondAck(p) /\ IncomingRight(p) = MID_ACK_MSG
                /\ IncomingLeft(p) # MID_ACK_MSG) =>
              /\ machines[p].testing = FALSE_
              /\ IF machines_old[p].timer >= 1
                 THEN /\ machines[p].message = PROMOTE_MSG
                      /\ machines[p].message_direction = RIGHT
                 ELSE /\ machines_old[p].timer = 0
                      /\ machines[p].message = TEST_MSG
                      /\ machines[p].message_direction = LEFT
        /\ (AwaitsSecondAck(p) /\ IncomingLeft(p) = MID_ACK_MSG
                /\ IncomingRight(p) # MID_ACK_MSG) =>
              /\ machines[p].testing = FALSE_
              /\ IF machines_old[p].timer >= 1
                 THEN /\ machines[p].message = PROMOTE_MSG
                      /\ machines[p].message_direction = LEFT
                 ELSE /\ machines_old[p].timer = 0
                      /\ machines[p].message = TEST_MSG
                      /\ machines[p].message_direction = RIGHT
        /\ machines[p].message = PROMOTE_MSG =>
              /\ AwaitsSecondAck(p) /\ machines_old[p].timer >= 1
              /\ IncomingLeft(p) = MID_ACK_MSG \/ IncomingRight(p) = MID_ACK_MSG
        /\ (machines_old[p].type = SOLDIER /\ machines_old[p].activity = ACTIVE
                /\ machines[p].type = SOLDIER /\ machines[p].activity = PASSIVE) =>
              /\ machines_old[p].testing = TRUE_ /\ machines[p].testing = TRUE_
              /\ machines[p].timer = 3
              /\ IncomingLeft(p) = MID_ACK_MSG \/ IncomingRight(p) = MID_ACK_MSG
        /\ (AwaitsSecondAck(p) /\ machines[p].testing = TRUE_) =>
              /\ machines[p].type = SOLDIER /\ machines[p].activity = PASSIVE
              /\ machines[p].timer =
                    IF machines_old[p].timer > 0 THEN machines_old[p].timer - 1
                    ELSE 0

C25_Witness ==
    /\ pc = "test" /\ N = 6
    /\ \E p \in Positions :
          /\ AwaitsSecondAck(p) /\ IncomingRight(p) = MID_ACK_MSG
          /\ machines_old[p].timer = 2
          /\ machines[p].message = PROMOTE_MSG
          /\ machines[p].message_direction = RIGHT

(* C26: RESETs are only relayed by Soldiers, one hop per step: a machine   *)
(* that is a Soldier in a snapshot carries RESET there only if in the      *)
(* previous snapshot a neighbour carried RESET directed at it, and it is   *)
(* then Active with its RESET directed to the side opposite that           *)
(* neighbour; a Soldier never carries RESET in two consecutive snapshots.  *)
C26_ResetRelayedOneHop ==
    \A p \in Updated :
        (machines[p].type = SOLDIER /\ machines[p].message = RESET_MSG) =>
            /\ IncomingLeft(p) = RESET_MSG \/ IncomingRight(p) = RESET_MSG
            /\ ~(IncomingLeft(p) = RESET_MSG /\ IncomingRight(p) = RESET_MSG)
            /\ machines[p].activity = ACTIVE
            /\ machines[p].message_direction =
                  IF IncomingLeft(p) = RESET_MSG THEN RIGHT ELSE LEFT
            /\ machines_old[p].message # RESET_MSG

C26_Witness ==
    /\ pc = "test"
    /\ \E p \in Positions :
          /\ machines[p].type = SOLDIER /\ machines[p].message = RESET_MSG
          /\ machines[p].message_direction = LEFT
          /\ machines_old[p].activity = PASSIVE
          /\ machines[p].activity = ACTIVE
          /\ machines_old[p + 1].type = SOLDIER
          /\ IncomingRight(p) = RESET_MSG

(* A machine record without its outgoing direction.                        *)
NoDirection(m) ==
    [type |-> m.type, activity |-> m.activity, color |-> m.color,
     timer |-> m.timer, message |-> m.message, testing |-> m.testing]

(* The previous snapshot with the direction of position q replaced by v.   *)
Redirected(q, v) ==
    [machines_old EXCEPT ![q].message_direction = v]

(* update_state(p) stores the value of dir without having assigned it: a   *)
(* General with nothing to send, or an Active testing Soldier that turns   *)
(* Passive on its first MID_ACK.                                           *)
DirUnassigned(p) ==
    \/ /\ machines_old[p].type = GENERAL
       /\ ~GeneralGotReset(p)
       /\ IncomingLeft(p) # MID_TEST_MSG /\ IncomingRight(p) # MID_TEST_MSG
       /\ ~(machines_old[p].activity = ACTIVE /\ machines_old[p].testing = TRUE_)
    \/ /\ machines_old[p].type = SOLDIER /\ machines_old[p].activity = ACTIVE
       /\ machines[p].type = SOLDIER /\ machines[p].activity = PASSIVE

(* C27: an outgoing direction left unassigned never matters: a machine     *)
(* whose payload is not NO_MSG has one of the three directions (assigned   *)
(* by the seeding or by the branch that produced the payload); the         *)
(* branches that leave dir unassigned store payload NO_MSG; and the result *)
(* of an update in kind, activity, color, testing, timer and payload is    *)
(* the same whatever value an unassigned direction has, be it the one the  *)
(* update stores or one a payload-free machine of the previous snapshot    *)
(* holds (update_state(j) reads that snapshot at j-1, j and j+1 only).     *)
C27_UnassignedDirectionIrrelevant ==
    /\ \A p \in Positions :
          machines[p].message # NO_MSG =>
              machines[p].message_direction \in {LEFT, RIGHT, BROADCAST}
    /\ \A p \in Updated : DirUnassigned(p) => machines[p].message = NO_MSG
    /\ pc = "update" =>
          LET results == {NoDirection(o) : o \in Outcomes(j, machines, machines_old)}
          IN  /\ Cardinality(results) = 1
              /\ \A q \in Positions \cap {j - 1, j, j + 1}, v \in UninitInt :
                    machines_old[q].message = NO_MSG =>
                        {NoDirection(o) :
                            o \in Outcomes(j, machines, Redirected(q, v))} = results

C27_Witness ==
    /\ pc = "update" /\ j >= 1 /\ j + 1 < N
    /\ machines_old[j].type = SOLDIER
    /\ machines_old[j - 1].type = GENERAL
    /\ machines_old[j - 1].message_direction = -1
    /\ DirUnassigned(j - 1)
    /\ machines[j - 1].message_direction = RIGHT
    /\ IncomingRight(j) # NO_MSG

(* C28: no message is lost to a relay tie-break: if a Soldier receives a   *)
(* payload other than NO_MSG from both neighbours in the same step, both   *)
(* payloads are MID_ACK; no Soldier receives RESET from both sides, nor a  *)
(* RESET, TEST, MID_TEST or PROMOTE from one side together with any        *)
(* payload from the other.  (The Soldier that receives the two MID_ACKs is *)
(* Active and becomes the middle General, whichever side is looked at      *)
(* first.)                                                                 *)
C28_NoRelayTieBreak ==
    \A p \in Updated :
        (machines_old[p].type = SOLDIER
            /\ IncomingLeft(p) # NO_MSG /\ IncomingRight(p) # NO_MSG) =>
                /\ IncomingLeft(p) = MID_ACK_MSG /\ IncomingRight(p) = MID_ACK_MSG
                /\ machines_old[p].activity = ACTIVE
                /\ machines[p] \in {Middle(machines_old[p])}

C28_Witness ==
    /\ pc = "test" /\ N >= 5
    /\ \E p \in Positions :
          /\ machines_old[p].type = SOLDIER
          /\ IncomingLeft(p) = MID_ACK_MSG /\ IncomingRight(p) = MID_ACK_MSG
          /\ machines_old[p - 1].type = SOLDIER
          /\ machines[p].type = GENERAL

(* machines holds a complete snapshot (no update pass is under way).       *)
AtSnapshot == pc \in {"loop", "test", "done"}

(* The Soldiers of snapshot ms that have testing set.                      *)
TestingSoldiers(ms) ==
    {p \in DOMAIN ms : ms[p].type = SOLDIER /\ ms[p].testing = TRUE_}

(* Positions p < q of snapshot ms lie in one segment: no General at or     *)
(* between them.                                                           *)
SameSegment(ms, p, q) ==
    \A x \in p .. q : ms[x].type = SOLDIER

(* C29: at most one probe is in progress per segment: in every snapshot,   *)
(* among the Soldiers lying strictly between two consecutive Generals at   *)
(* most one has testing set, and a Soldier that has timer > 0 has testing  *)
(* set or carries PROMOTE.                                                 *)
C29_OneProbePerSegment ==
    AtSnapshot =>
        /\ \A p, q \in TestingSoldiers(machines) :
              p < q => ~SameSegment(machines, p, q)
        /\ \A p \in Positions :
              (machines[p].type = SOLDIER /\ machines[p].timer > 0) =>
                  (machines[p].testing = TRUE_ \/ machines[p].message = PROMOTE_MSG)

C29_Witness ==
    /\ pc = "test" /\ N = 6
    /\ Cardinality(TestingSoldiers(machines)) = 1
    /\ \E p \in TestingSoldiers(machines) :
          /\ p >= 2 /\ machines[p].timer > 0
          /\ machines[p - 1].type = SOLDIER /\ machines[p - 1].testing = FALSE_
          /\ machines[p - 1].activity = PASSIVE

=============================================================================
